---------------------------- MODULE Spec2Model ----------------------------
(***************************************************************************)
(* Model of Lymely/Resources/Map/script.py: a one-shot script that joins   *)
(* county boundaries (counties.geojson) with per-county case counts        *)
(* (lyme_disease_2022.csv) on a zero-padded GEOID, prints the rows with    *)
(* missing data, and writes merged_county_data.geojson.                    *)
(*                                                                         *)
(* A string is a sequence of one-character strings.  A cell of a frame is  *)
(* a string or the missing value NaN.  A frame is a record                 *)
(* [columns, rows]; each row is a function from the frame's columns to     *)
(* cells.                                                                  *)
(***************************************************************************)
EXTENDS Integers, Sequences, FiniteSets, TLC

(* ------------------------------ bounds -------------------------------- *)
MaxCounties == 2
MaxCsvRows == 2
MaxLen == 6

(* ------------------------- values and strings ------------------------- *)
\* The missing value of pandas (NaN / None); no string equals it.
NaN == <<"NaN">>

\* Width given to zfill on lines 9 and 11.
ZfillWidth == 5

Digit == <<"0", "1", "2", "3", "4", "5", "6", "7", "8", "9">>

RECURSIVE NatToStr(_)
NatToStr(n) ==
    IF n < 10 THEN <<Digit[n + 1]>>
    ELSE NatToStr(n \div 10) \o <<Digit[(n % 10) + 1]>>

\* str(v) of a GeoJSON property value: an integer is written in decimal,
\* a string is kept.
astype_str(v) ==
    IF v.kind = "int"
    THEN IF v.val < 0 THEN <<"-">> \o NatToStr(-v.val) ELSE NatToStr(v.val)
    ELSE v.val

RECURSIVE Zeros(_)
Zeros(n) == IF n <= 0 THEN <<>> ELSE <<"0">> \o Zeros(n - 1)

\* zfill that ignores a leading sign
zfill_unsigned(s, width) ==
    IF Len(s) >= width THEN s ELSE Zeros(width - Len(s)) \o s

\* str.zfill(width): zeros are inserted on the left, after a leading sign.
zfill(s, width) ==
    IF Len(s) >= width THEN s
    ELSE IF Len(s) > 0 /\ s[1] \in {"+", "-"}
         THEN <<s[1]>> \o Zeros(width - Len(s)) \o Tail(s)
         ELSE Zeros(width - Len(s)) \o s

\* Series.str.zfill(width): element-wise, a missing value stays missing.
str_zfill(cell, width) == IF cell = NaN THEN NaN ELSE zfill(cell, width)

\* str.startswith(prefix)
startswith(s, prefix) ==
    /\ Len(s) >= Len(prefix)
    /\ SubSeq(s, 1, Len(prefix)) = prefix

\* The literal '72' of lines 14 and 15.
NonMainlandPrefix == <<"7", "2">>

(* ------------------------------ frames -------------------------------- *)
\* a missing-data test that looks at the metric column only
isna_any_metric(row) == "cases" \in DOMAIN row /\ row["cases"] = NaN

\* DataFrame.isna().any(axis=1) for one row
isna_any(row) == \E c \in DOMAIN row : row[c] = NaN

\* frame[cols]: projection of every row on the listed columns
Project(rows, cols) ==
    [i \in 1..Len(rows) |-> [c \in cols |-> rows[i][c]]]

\* name of a column of the left / right frame in the merge result
\* (pandas suffixes "_x" / "_y" on non-key columns present in both frames)
LeftName(c, on, lcols, rcols) ==
    IF c # on /\ c \in lcols /\ c \in rcols THEN c \o "_x" ELSE c

RightName(c, on, lcols, rcols) ==
    IF c # on /\ c \in lcols /\ c \in rcols THEN c \o "_y" ELSE c

MergedColumns(on, lcols, rcols) ==
    {LeftName(c, on, lcols, rcols) : c \in lcols}
    \cup {RightName(c, on, lcols, rcols) : c \in rcols \ {on}}

\* a join row that always takes the first right row
JoinRow_first(l, right, j, on, lcols, rcols) ==
    [c \in MergedColumns(on, lcols, rcols) |->
        IF \E lc \in lcols : LeftName(lc, on, lcols, rcols) = c
        THEN l[CHOOSE lc \in lcols : LeftName(lc, on, lcols, rcols) = c]
        ELSE IF j = 0 THEN NaN
             ELSE right[1][CHOOSE rc \in rcols \ {on} :
                               RightName(rc, on, lcols, rcols) = c]]

\* One output row of the join: the left row with the right row's non-key
\* columns; j = 0 stands for "no right row" and leaves them missing.
JoinRow(l, right, j, on, lcols, rcols) ==
    [c \in MergedColumns(on, lcols, rcols) |->
        IF \E lc \in lcols : LeftName(lc, on, lcols, rcols) = c
        THEN l[CHOOSE lc \in lcols : LeftName(lc, on, lcols, rcols) = c]
        ELSE IF j = 0 THEN NaN
             ELSE right[j][CHOOSE rc \in rcols \ {on} :
                               RightName(rc, on, lcols, rcols) = c]]

\* a lookup that stops at the first right row whose key equals k
RECURSIVE MatchesFrom_first(_, _, _, _)
MatchesFrom_first(right, on, k, j) ==
    IF j > Len(right) THEN <<>>
    ELSE IF right[j][on] = k THEN <<j>>
         ELSE MatchesFrom_first(right, on, k, j + 1)

\* indices of the right rows whose key equals k, in right order
RECURSIVE MatchesFrom(_, _, _, _)
MatchesFrom(right, on, k, j) ==
    IF j > Len(right) THEN <<>>
    ELSE (IF right[j][on] = k THEN <<j>> ELSE <<>>)
         \o MatchesFrom(right, on, k, j + 1)

\* the join with the left rows taken last to first
RECURSIVE LeftMergeRows_reversed(_, _, _, _, _)
LeftMergeRows_reversed(left, right, on, lcols, rcols) ==
    IF left = <<>> THEN <<>>
    ELSE LET l == Head(left)
             m == MatchesFrom(right, on, l[on], 1)
             out == IF m = <<>>
                    THEN <<JoinRow(l, right, 0, on, lcols, rcols)>>
                    ELSE [n \in 1..Len(m) |->
                             JoinRow(l, right, m[n], on, lcols, rcols)]
         IN LeftMergeRows_reversed(Tail(left), right, on, lcols, rcols) \o out

\* left.merge(right, on=on, how='left'): for each left row in order, one
\* output row per matching right row, or one row with missing right columns.
RECURSIVE LeftMergeRows(_, _, _, _, _)
LeftMergeRows(left, right, on, lcols, rcols) ==
    IF left = <<>> THEN <<>>
    ELSE LET l == Head(left)
             m == MatchesFrom(right, on, l[on], 1)
             out == IF m = <<>>
                    THEN <<JoinRow(l, right, 0, on, lcols, rcols)>>
                    ELSE [n \in 1..Len(m) |->
                             JoinRow(l, right, m[n], on, lcols, rcols)]
         IN out \o LeftMergeRows(Tail(left), right, on, lcols, rcols)

\* rows an outer join adds: the right rows whose key no left row has
RightOnlyRows(left, right, on) ==
    LET unmatched == SelectSeq(right.rows,
            LAMBDA r : \A i \in 1..Len(left.rows) : left.rows[i][on] # r[on])
    IN [n \in 1..Len(unmatched) |->
           [c \in MergedColumns(on, left.columns, right.columns) |->
               IF c = on THEN unmatched[n][on]
               ELSE IF \E rc \in right.columns \ {on} :
                          RightName(rc, on, left.columns, right.columns) = c
                    THEN unmatched[n][CHOOSE rc \in right.columns \ {on} :
                          RightName(rc, on, left.columns, right.columns) = c]
                    ELSE NaN]]

\* how='outer' in place of how='left'
merge_outer(left, right, on) ==
    [columns |-> MergedColumns(on, left.columns, right.columns),
     rows |-> LeftMergeRows(left.rows, right.rows, on,
                            left.columns, right.columns)
              \o RightOnlyRows(left, right, on)]

merge(left, right, on) ==
    [columns |-> MergedColumns(on, left.columns, right.columns),
     rows |-> LeftMergeRows(left.rows, right.rows, on,
                            left.columns, right.columns)]

(* ------------------------- the script's state ------------------------- *)
VARIABLES
    geojson_file,          \* counties.geojson on disk (line 5)
    csv_file,              \* lyme_disease_2022.csv on disk (line 6)
    out_file,              \* merged_county_data.geojson on disk (line 18)
    pc,                    \* the statement the script is about to run
    counties,              \* line 8
    csv_data,              \* line 10
    merged_data,           \* line 12
    missing_data,          \* line 13
    missing_mainland,      \* line 14
    missing_non_mainland,  \* line 15
    stdout                 \* what has been printed

vars == <<geojson_file, csv_file, out_file, pc, counties, csv_data,
          merged_data, missing_data, missing_mainland, missing_non_mainland,
          stdout>>

\* a name not bound yet
Unbound == [columns |-> {}, rows |-> <<>>]

CountiesColumns == {"GEOID", "NAME", "geometry"}

(* ------------------------------ inputs -------------------------------- *)
StrValue(s) == [kind |-> "str", val |-> s]
IntValue(n) == [kind |-> "int", val |-> n]

\* GEOID property values of the features: an integer that needs a leading
\* zero, a Puerto Rico code, a code one character too long.
CountyGeoids ==
    {IntValue(6001), StrValue(<<"7", "2", "0", "0", "1">>),
     StrValue(<<"7", "2", "0", "0", "1", "1">>)}

\* GEOID fields of the CSV: two spellings of one county and a Puerto Rico code
CsvGeoids ==
    {<<"6", "0", "0", "1">>, <<"0", "6", "0", "0", "1">>,
     <<"7", "2", "0", "0", "1">>}

\* every feature has its own geometry; its NAME may be null
Geometry(i) == <<"g", Digit[i + 1]>>
CountyName == <<"A">>

Feature(i, geoid, name) ==
    [GEOID |-> geoid, NAME |-> name, geometry |-> Geometry(i)]

Features(n) ==
    {[i \in 1..n |-> Feature(i, g[i], nm[i])] :
        g \in [1..n -> CountyGeoids], nm \in [1..n -> {CountyName, NaN}]}

\* every CSV row has its own case count, or none; a CSV may also carry a
\* NAME column of its own
Cases(j) == <<"c", Digit[j + 1]>>
CsvName == <<"B">>

CsvRow(j, geoid, counted, cols) ==
    [c \in cols |->
        CASE c = "GEOID" -> geoid
          [] c = "cases" -> IF counted THEN Cases(j) ELSE NaN
          [] OTHER -> CsvName]

CsvRows(n, cols) ==
    {[j \in 1..n |-> CsvRow(j, g[j], k[j], cols)] :
        g \in [1..n -> CsvGeoids], k \in [1..n -> BOOLEAN]}

CsvColumnSets == {{"GEOID", "cases"}, {"GEOID", "NAME", "cases"}}

GeojsonFiles(FeatureSeqs) ==
    {[status |-> st, rows |-> <<>>] : st \in {"missing", "malformed"}}
    \cup {[status |-> "ok", rows |-> f] : f \in FeatureSeqs}

\* RowSeqs maps each header to the row sequences offered under it
CsvFiles(RowSeqs) ==
    {[status |-> st, columns |-> {}, rows |-> <<>>] :
        st \in {"missing", "malformed"}}
    \cup UNION {{[status |-> "ok", columns |-> cols, rows |-> r] :
                    r \in RowSeqs[cols]} : cols \in CsvColumnSets}

OutFiles ==
    {[state |-> "absent", content |-> Unbound],
     [state |-> "old", content |-> Unbound]}

InitRun ==
    /\ pc = "read_counties"
    /\ counties = Unbound
    /\ csv_data = Unbound
    /\ merged_data = Unbound
    /\ missing_data = Unbound
    /\ missing_mainland = Unbound
    /\ missing_non_mainland = Unbound
    /\ stdout = <<>>
    /\ out_file \in OutFiles

AllCsvRows ==
    [cols \in CsvColumnSets |->
        UNION {CsvRows(n, cols) : n \in 0..MaxCsvRows}]

Init ==
    /\ geojson_file \in
           GeojsonFiles(UNION {Features(n) : n \in 0..MaxCounties})
    /\ csv_file \in CsvFiles(AllCsvRows)
    /\ InitRun

(* ------------------------------ the run ------------------------------- *)
\* line 8: counties = gpd.read_file(geojson_path)
ReadCounties ==
    /\ pc = "read_counties"
    /\ geojson_file.status = "ok"
    /\ counties' = [columns |-> CountiesColumns, rows |-> geojson_file.rows]
    /\ pc' = "normalize_counties"
    /\ UNCHANGED <<geojson_file, csv_file, out_file, csv_data, merged_data,
                   missing_data, missing_mainland, missing_non_mainland,
                   stdout>>

\* line 8 raises: the file is missing or is not GeoJSON
ReadCountiesFail ==
    /\ pc = "read_counties"
    /\ geojson_file.status # "ok"
    /\ pc' = "error"
    /\ UNCHANGED <<geojson_file, csv_file, out_file, counties, csv_data,
                   merged_data, missing_data, missing_mainland,
                   missing_non_mainland, stdout>>

\* line 9: counties['GEOID'] = counties['GEOID'].astype(str).str.zfill(5)
NormalizeCountiesGeoid(v) == str_zfill(astype_str(v), ZfillWidth)

NormalizeCounties ==
    /\ pc = "normalize_counties"
    /\ counties' =
           [counties EXCEPT !.rows =
               [i \in 1..Len(counties.rows) |->
                   [counties.rows[i] EXCEPT
                       !["GEOID"] = NormalizeCountiesGeoid(@)]]]
    /\ pc' = "read_csv"
    /\ UNCHANGED <<geojson_file, csv_file, out_file, csv_data, merged_data,
                   missing_data, missing_mainland, missing_non_mainland,
                   stdout>>

\* line 10: csv_data = pd.read_csv(csv_path, dtype={'GEOID': str})
ReadCsv ==
    /\ pc = "read_csv"
    /\ csv_file.status = "ok"
    /\ csv_data' = [columns |-> csv_file.columns, rows |-> csv_file.rows]
    /\ pc' = "normalize_csv"
    /\ UNCHANGED <<geojson_file, csv_file, out_file, counties, merged_data,
                   missing_data, missing_mainland, missing_non_mainland,
                   stdout>>

\* line 10 raises: the file is missing or is not CSV
ReadCsvFail ==
    /\ pc = "read_csv"
    /\ csv_file.status # "ok"
    /\ pc' = "error"
    /\ UNCHANGED <<geojson_file, csv_file, out_file, counties, csv_data,
                   merged_data, missing_data, missing_mainland,
                   missing_non_mainland, stdout>>

\* line 11 without the padding
NormalizeCsvGeoid_unpadded(v) == v

\* line 11: csv_data['GEOID'] = csv_data['GEOID'].str.zfill(5)
NormalizeCsvGeoid(v) == str_zfill(v, ZfillWidth)

NormalizeCsv ==
    /\ pc = "normalize_csv"
    /\ csv_data' =
           [csv_data EXCEPT !.rows =
               [j \in 1..Len(csv_data.rows) |->
                   [csv_data.rows[j] EXCEPT
                       !["GEOID"] = NormalizeCsvGeoid(@)]]]
    /\ pc' = "merge"
    /\ UNCHANGED <<geojson_file, csv_file, out_file, counties, merged_data,
                   missing_data, missing_mainland, missing_non_mainland,
                   stdout>>

\* line 12: merged_data = counties.merge(csv_data, on='GEOID', how='left')
Merge ==
    /\ pc = "merge"
    /\ merged_data' = merge(counties, csv_data, "GEOID")
    /\ pc' = "report"
    /\ UNCHANGED <<geojson_file, csv_file, out_file, counties, csv_data,
                   missing_data, missing_mainland, missing_non_mainland,
                   stdout>>

\* line 13: merged_data[merged_data.isna().any(axis=1)]
MissingData(frame) ==
    [frame EXCEPT !.rows = SelectSeq(frame.rows, isna_any)]

\* line 15: missing_data[missing_data['GEOID'].str.startswith('72')]
IsNonMainland(row) == startswith(row["GEOID"], NonMainlandPrefix)

MissingNonMainland(frame) ==
    [frame EXCEPT !.rows = SelectSeq(frame.rows, IsNonMainland)]

\* line 14 without the negation
IsMainland_unnegated(row) == startswith(row["GEOID"], NonMainlandPrefix)

\* line 14: missing_data[~missing_data['GEOID'].str.startswith('72')]
IsMainland(row) == ~startswith(row["GEOID"], NonMainlandPrefix)

MissingMainland(frame) ==
    [frame EXCEPT !.rows = SelectSeq(frame.rows, IsMainland)]

\* the columns printed on lines 16 and 17
ReportColumns == {"GEOID", "NAME"}

Table(title, frame) ==
    [title |-> title, table |-> Project(frame.rows, ReportColumns)]

\* a report that drops the rows with missing data from merged_data
Report_dropna ==
    /\ pc = "report"
    /\ ReportColumns \subseteq merged_data.columns
    /\ missing_data' = MissingData(merged_data)
    /\ missing_mainland' = MissingMainland(missing_data')
    /\ missing_non_mainland' = MissingNonMainland(missing_data')
    /\ stdout' = stdout \o <<Table("mainland", missing_mainland'),
                             Table("non-mainland", missing_non_mainland')>>
    /\ merged_data' =
           [merged_data EXCEPT !.rows =
               SelectSeq(merged_data.rows, LAMBDA r : ~isna_any(r))]
    /\ pc' = "write"
    /\ UNCHANGED <<geojson_file, csv_file, out_file, counties, csv_data>>

\* lines 13-17: select the rows with missing data, split them, print both
Report ==
    /\ pc = "report"
    /\ ReportColumns \subseteq merged_data.columns
    /\ missing_data' = MissingData(merged_data)
    /\ missing_mainland' = MissingMainland(missing_data')
    /\ missing_non_mainland' = MissingNonMainland(missing_data')
    /\ stdout' = stdout \o <<Table("mainland", missing_mainland'),
                             Table("non-mainland", missing_non_mainland')>>
    /\ pc' = "write"
    /\ UNCHANGED <<geojson_file, csv_file, out_file, counties, csv_data,
                   merged_data>>

\* a report whose KeyError is swallowed: the run goes on to the writer
ReportFail_swallowed ==
    /\ pc = "report"
    /\ ~(ReportColumns \subseteq merged_data.columns)
    /\ missing_data' = MissingData(merged_data)
    /\ missing_mainland' = MissingMainland(missing_data')
    /\ missing_non_mainland' = MissingNonMainland(missing_data')
    /\ pc' = "write"
    /\ UNCHANGED <<geojson_file, csv_file, out_file, counties, csv_data,
                   merged_data, stdout>>

\* lines 13-16: the selections succeed, then [['GEOID', 'NAME']] raises
\* KeyError because the merged frame has no column of that name
ReportFail ==
    /\ pc = "report"
    /\ ~(ReportColumns \subseteq merged_data.columns)
    /\ missing_data' = MissingData(merged_data)
    /\ missing_mainland' = MissingMainland(missing_data')
    /\ missing_non_mainland' = MissingNonMainland(missing_data')
    /\ pc' = "error"
    /\ UNCHANGED <<geojson_file, csv_file, out_file, counties, csv_data,
                   merged_data, stdout>>

\* lines 19-20: merged_data.to_file(output_geojson_path, driver='GeoJSON')
Write ==
    /\ pc = "write"
    /\ out_file' = [state |-> "written", content |-> merged_data]
    /\ stdout' = stdout \o <<[title |-> "saved", table |-> <<>>]>>
    /\ pc' = "done"
    /\ UNCHANGED <<geojson_file, csv_file, counties, csv_data, merged_data,
                   missing_data, missing_mainland, missing_non_mainland>>

\* line 19 raises: the output path is not writable
WriteFail ==
    /\ pc = "write"
    /\ pc' = "error"
    /\ UNCHANGED <<geojson_file, csv_file, out_file, counties, csv_data,
                   merged_data, missing_data, missing_mainland,
                   missing_non_mainland, stdout>>

Next ==
    \/ ReadCounties
    \/ ReadCountiesFail
    \/ NormalizeCounties
    \/ ReadCsv
    \/ ReadCsvFail
    \/ NormalizeCsv
    \/ Merge
    \/ Report
    \/ ReportFail
    \/ Write
    \/ WriteFail

Spec == Init /\ [][Next]_vars

(* --------- a second specification: one identifier of any shape -------- *)
\* Characters of the identifiers tried: a zero, another digit, a sign.
NormAlphabet == {"0", "7", "-"}

NormStrings == UNION {[1..k -> NormAlphabet] : k \in 0..MaxLen}

NormInts == {-7, 0, 7, 6001, 72001, 720011}

NormGeoids ==
    {StrValue(s) : s \in NormStrings} \cup {IntValue(n) : n \in NormInts}

\* One feature and one CSV row.  The CSV field holds the same text as the
\* feature's GEOID, or is empty.
NormInit ==
    /\ \E g \in NormGeoids :
        /\ geojson_file \in GeojsonFiles({<<Feature(1, g, CountyName)>>})
        /\ csv_file \in
               CsvFiles([cols \in CsvColumnSets |->
                   {<<CsvRow(1, c, TRUE, cols)>> :
                       c \in {astype_str(g), NaN}}])
    /\ InitRun

NormSpec == NormInit /\ [][Next]_vars

(* ======================= properties of the script ===================== *)
Bound(frame) == frame # Unbound

CountiesNormalized ==
    Bound(counties) /\ pc \notin {"read_counties", "normalize_counties"}

CsvNormalized ==
    Bound(csv_data) /\ pc \notin {"read_csv", "normalize_csv"}

\* the text of the i-th identifier of each input file, before normalization
RawCountyGeoid(i) == astype_str(geojson_file.rows[i]["GEOID"])
RawCsvGeoid(j) == csv_file.rows[j]["GEOID"]

IsSuffix(s, t) ==
    Len(s) <= Len(t) /\ SubSeq(t, Len(t) - Len(s) + 1, Len(t)) = s

HasSign(s) == Len(s) > 0 /\ s[1] \in {"+", "-"}

\* r is s with '0' characters put in front until the length is ZfillWidth
LeftPadded(s, r) ==
    IF Len(s) >= ZfillWidth THEN r = s
    ELSE /\ Len(r) = ZfillWidth
         /\ IsSuffix(s, r)
         /\ \A n \in 1..(ZfillWidth - Len(s)) : r[n] = "0"

\* r is s with the '0' characters put after the leading sign of s
PaddedAfterSign(s, r) ==
    IF Len(s) >= ZfillWidth THEN r = s
    ELSE /\ Len(r) = ZfillWidth
         /\ r[1] = s[1]
         /\ IsSuffix(Tail(s), r)
         /\ \A n \in 2..(ZfillWidth - Len(s) + 1) : r[n] = "0"

\* C10 as stated: every normalized identifier is its text left-padded with
\* '0' to 5 characters, or the text itself when that has 5 or more; the text
\* is a suffix of the result; normalizing the result again changes nothing.
C10_Original ==
    /\ CountiesNormalized =>
        \A i \in 1..Len(counties.rows) :
            LET r == counties.rows[i]["GEOID"] IN
            /\ LeftPadded(RawCountyGeoid(i), r)
            /\ IsSuffix(RawCountyGeoid(i), r)
            /\ NormalizeCountiesGeoid(StrValue(r)) = r
    /\ CsvNormalized =>
        \A j \in 1..Len(csv_data.rows) :
            LET r == csv_data.rows[j]["GEOID"] IN
            RawCsvGeoid(j) # NaN =>
                /\ LeftPadded(RawCsvGeoid(j), r)
                /\ IsSuffix(RawCsvGeoid(j), r)
                /\ NormalizeCsvGeoid(r) = r

NormalizedAs(s, r) ==
    IF HasSign(s) THEN PaddedAfterSign(s, r) ELSE LeftPadded(s, r)

\* C10 amended: the zeros go in front of the text, or right after its
\* leading sign when it has one; a text of 5 or more characters is
\* unchanged; the text is a suffix of the result unless it is a signed text
\* shorter than 5 characters; an empty CSV field stays empty; both
\* collections get the same result for the same text; normalizing the
\* result again changes nothing.
C10_Normalization ==
    /\ CountiesNormalized =>
        \A i \in 1..Len(counties.rows) :
            LET s == RawCountyGeoid(i)
                r == counties.rows[i]["GEOID"] IN
            /\ NormalizedAs(s, r)
            /\ (~HasSign(s) \/ Len(s) >= ZfillWidth) => IsSuffix(s, r)
            /\ NormalizeCountiesGeoid(StrValue(r)) = r
    /\ CsvNormalized =>
        \A j \in 1..Len(csv_data.rows) :
            LET s == RawCsvGeoid(j)
                r == csv_data.rows[j]["GEOID"] IN
            /\ s = NaN => r = NaN
            /\ s # NaN =>
                /\ NormalizedAs(s, r)
                /\ (~HasSign(s) \/ Len(s) >= ZfillWidth) => IsSuffix(s, r)
            /\ NormalizeCsvGeoid(r) = r
    /\ (CountiesNormalized /\ CsvNormalized) =>
        \A i \in 1..Len(counties.rows), j \in 1..Len(csv_data.rows) :
            RawCountyGeoid(i) = RawCsvGeoid(j) =>
                counties.rows[i]["GEOID"] = csv_data.rows[j]["GEOID"]

\* both collections hold a signed identifier padded after its sign, and
\* some run holds an unsigned one padded on the left
C10_Witness ==
    /\ CountiesNormalized
    /\ CsvNormalized
    /\ Len(counties.rows) = 1
    /\ Len(csv_data.rows) = 1
    /\ RawCountyGeoid(1) = <<"-", "7">>
    /\ counties.rows[1]["GEOID"] = <<"-", "0", "0", "0", "7">>
    /\ csv_data.rows[1]["GEOID"] = <<"-", "0", "0", "0", "7">>

\* r is s with only '0' characters added, after at most one leading character
ZeroFilled(s, r) ==
    IF Len(s) >= ZfillWidth THEN r = s
    ELSE /\ Len(r) = ZfillWidth
         /\ \E p \in 0..1 :
             /\ p <= Len(s)
             /\ \A n \in 1..p : r[n] = s[n]
             /\ \A n \in (p + 1)..(p + ZfillWidth - Len(s)) : r[n] = "0"
             /\ \A n \in (p + 1)..Len(s) : r[n + ZfillWidth - Len(s)] = s[n]

\* C4 as stated: after normalization every identifier of both collections,
\* and every GEOID of the merged output, has exactly 5 characters.
C4_Original ==
    /\ CountiesNormalized =>
        \A i \in 1..Len(counties.rows) :
            Len(counties.rows[i]["GEOID"]) = ZfillWidth
    /\ CsvNormalized =>
        \A j \in 1..Len(csv_data.rows) :
            Len(csv_data.rows[j]["GEOID"]) = ZfillWidth
    /\ Bound(merged_data) =>
        \A n \in 1..Len(merged_data.rows) :
            Len(merged_data.rows[n]["GEOID"]) = ZfillWidth

\* C4 amended: after normalization every identifier that is not missing is
\* a string of at least 5 characters: zero-filled to exactly 5 when its
\* text has at most 5, the unchanged text when it has more; so every GEOID
\* of the merged output has max(5, original width) characters.
C4_Width ==
    /\ CountiesNormalized =>
        \A i \in 1..Len(counties.rows) :
            LET s == RawCountyGeoid(i)
                r == counties.rows[i]["GEOID"] IN
            /\ r # NaN
            /\ Len(r) >= ZfillWidth
            /\ Len(r) = (IF Len(s) > ZfillWidth THEN Len(s) ELSE ZfillWidth)
            /\ ZeroFilled(s, r)
    /\ CsvNormalized =>
        \A j \in 1..Len(csv_data.rows) :
            LET s == RawCsvGeoid(j)
                r == csv_data.rows[j]["GEOID"] IN
            (s # NaN \/ r # NaN) =>
                /\ s # NaN
                /\ r # NaN
                /\ Len(r) >= ZfillWidth
                /\ Len(r) = (IF Len(s) > ZfillWidth THEN Len(s)
                             ELSE ZfillWidth)
                /\ ZeroFilled(s, r)
    /\ Bound(merged_data) =>
        /\ Len(merged_data.rows) >= Len(counties.rows)
        /\ \A n \in 1..Len(merged_data.rows) :
            \E i \in 1..Len(counties.rows) :
                LET s == RawCountyGeoid(i)
                    r == merged_data.rows[n]["GEOID"] IN
                /\ r = counties.rows[i]["GEOID"]
                /\ Len(r) = (IF Len(s) > ZfillWidth THEN Len(s)
                             ELSE ZfillWidth)

\* the run is over and the output holds a GEOID wider than 5 characters,
\* joined to the CSV row that carries the same wide identifier
C4_Witness ==
    /\ pc = "done"
    /\ Len(out_file.content.rows) = 1
    /\ Len(out_file.content.rows[1]["GEOID"]) = ZfillWidth + 1
    /\ Len(csv_data.rows[1]["GEOID"]) = ZfillWidth + 1
    /\ out_file.content.rows[1]["cases"] # NaN

(* ------------------------------ the join ------------------------------ *)
\* the column of the merged frame that holds column c of the boundaries
OwnColumn(c) ==
    IF c = "NAME" /\ "NAME" \in csv_data.columns THEN "NAME_x" ELSE c

\* the column of the merged frame that holds non-key column c of the CSV
MetricColumn(c) ==
    IF c = "NAME" /\ "NAME" \in counties.columns THEN "NAME_y" ELSE c

MetricColumns == csv_data.columns \ {"GEOID"}

\* the CSV rows whose normalized GEOID is that of boundary record i
MatchesOf(i) ==
    {j \in 1..Len(csv_data.rows) :
        csv_data.rows[j]["GEOID"] = counties.rows[i]["GEOID"]}

\* the output rows that come from boundary record i (geometries are unique)
OutputRowsOf(i) ==
    {n \in 1..Len(merged_data.rows) :
        merged_data.rows[n]["geometry"] = counties.rows[i]["geometry"]}

\* C1 as stated: the merged collection holds every boundary record exactly
\* once, so it has as many rows as the boundary collection.
C1_Original ==
    Bound(merged_data) =>
        /\ Len(merged_data.rows) = Len(counties.rows)
        /\ \A i \in 1..Len(counties.rows) : Cardinality(OutputRowsOf(i)) = 1

RowsFor(i) ==
    IF MatchesOf(i) = {} THEN 1 ELSE Cardinality(MatchesOf(i))

\* C1 amended: the merged collection holds every boundary record once for
\* each attribute record with the same normalized GEOID, and once when there
\* is none; its row count is the sum of these, never less than the number
\* of boundary records, and equal to it when no boundary record matches
\* more than one attribute record.
C1_Cardinality ==
    Bound(merged_data) =>
        /\ \A i \in 1..Len(counties.rows) :
            Cardinality(OutputRowsOf(i)) = RowsFor(i)
        /\ Len(merged_data.rows) >= Len(counties.rows)
        /\ (\A i \in 1..Len(counties.rows) : Cardinality(MatchesOf(i)) <= 1)
            => Len(merged_data.rows) = Len(counties.rows)
        /\ \A n \in 1..Len(merged_data.rows) :
            \E i \in 1..Len(counties.rows) : n \in OutputRowsOf(i)

\* two CSV rows normalize to the GEOID of one boundary record, which is
\* twice in the output, next to a boundary record that is there once
C1_Witness ==
    /\ Bound(merged_data)
    /\ Len(counties.rows) = 2
    /\ Cardinality(MatchesOf(1)) = 2
    /\ csv_file.rows[1]["GEOID"] # csv_file.rows[2]["GEOID"]
    /\ Cardinality(OutputRowsOf(1)) = 2
    /\ Cardinality(OutputRowsOf(2)) = 1
    /\ Len(merged_data.rows) = 3

\* C2: every output row carries the attributes of its boundary record; when
\* attribute records share that record's normalized GEOID the row carries
\* the metric values of one of them, and each of them is carried by a row;
\* otherwise every metric column of the row is empty.
C2_JoinedRecord ==
    Bound(merged_data) =>
        /\ merged_data.columns =
               {OwnColumn(c) : c \in counties.columns}
               \cup {MetricColumn(c) : c \in MetricColumns}
        /\ \A n \in 1..Len(merged_data.rows) :
            \E i \in 1..Len(counties.rows) :
                LET row == merged_data.rows[n] IN
                /\ \A c \in counties.columns :
                       row[OwnColumn(c)] = counties.rows[i][c]
                /\ MatchesOf(i) # {} =>
                       \E j \in MatchesOf(i) : \A c \in MetricColumns :
                           row[MetricColumn(c)] = csv_data.rows[j][c]
                /\ MatchesOf(i) = {} =>
                       \A c \in MetricColumns : row[MetricColumn(c)] = NaN
        /\ \A i \in 1..Len(counties.rows) : \A j \in MatchesOf(i) :
            \E n \in OutputRowsOf(i) : \A c \in MetricColumns :
                merged_data.rows[n][MetricColumn(c)] = csv_data.rows[j][c]

\* boundary 6001 became "06001" and joined the second CSV row, "06001",
\* with no empty field; the other boundary record has no match and an
\* empty metric column
C2_Witness ==
    /\ Bound(merged_data)
    /\ Len(counties.rows) = 2
    /\ Len(csv_data.rows) = 2
    /\ geojson_file.rows[1]["GEOID"] = IntValue(6001)
    /\ csv_file.rows[2]["GEOID"] = <<"0", "6", "0", "0", "1">>
    /\ MatchesOf(1) = {2}
    /\ MatchesOf(2) = {}
    /\ Len(merged_data.rows) = 2
    /\ merged_data.rows[1]["GEOID"] = <<"0", "6", "0", "0", "1">>
    /\ merged_data.rows[1]["cases"] = Cases(2)
    /\ \A c \in merged_data.columns : merged_data.rows[1][c] # NaN
    /\ merged_data.rows[2]["cases"] = NaN

\* the attribute records that match no boundary record
Unmatched ==
    {j \in 1..Len(csv_data.rows) :
        \A i \in 1..Len(counties.rows) :
            csv_data.rows[j]["GEOID"] # counties.rows[i]["GEOID"]}

\* C3: an attribute record that matches no boundary record is nowhere in
\* the output: no output row has its GEOID, none has its case count.
C3_LeftJoin ==
    Bound(merged_data) =>
        \A j \in Unmatched : \A n \in 1..Len(merged_data.rows) :
            /\ merged_data.rows[n]["GEOID"] # csv_data.rows[j]["GEOID"]
            /\ csv_data.rows[j]["cases"] # NaN =>
                   merged_data.rows[n]["cases"] # csv_data.rows[j]["cases"]

\* a CSV row with a case count matches no boundary record, another one
\* matches, and the output holds just the matched one
C3_Witness ==
    /\ Bound(merged_data)
    /\ Len(counties.rows) = 1
    /\ Len(csv_data.rows) = 2
    /\ Unmatched = {1}
    /\ csv_data.rows[1]["cases"] = Cases(1)
    /\ Len(merged_data.rows) = 1
    /\ merged_data.rows[1]["cases"] = Cases(2)

\* the boundary record an output row comes from
SourceOf(n) ==
    CHOOSE i \in 1..Len(counties.rows) : n \in OutputRowsOf(i)

\* C8: the output lists the boundary records in the order of the boundary
\* collection, whatever the attribute records are; it is not sorted.
C8_Order ==
    Bound(merged_data) =>
        \A n, m \in 1..Len(merged_data.rows) :
            n < m => SourceOf(n) <= SourceOf(m)

\* the boundary collection is in descending GEOID order, the CSV lists the
\* same counties the other way round, and the output keeps the boundary order
C8_Witness ==
    /\ Bound(merged_data)
    /\ Len(counties.rows) = 2
    /\ Len(csv_data.rows) = 2
    /\ counties.rows[1]["GEOID"] = <<"7", "2", "0", "0", "1">>
    /\ counties.rows[2]["GEOID"] = <<"0", "6", "0", "0", "1">>
    /\ MatchesOf(1) = {2}
    /\ MatchesOf(2) = {1}
    /\ Len(merged_data.rows) = 2
    /\ merged_data.rows[1]["GEOID"] = <<"7", "2", "0", "0", "1">>
    /\ merged_data.rows[2]["GEOID"] = <<"0", "6", "0", "0", "1">>

(* ----------------------------- the report ----------------------------- *)
\* how many times row r is in rows
Count(rows, r) == Cardinality({n \in 1..Len(rows) : rows[n] = r})

Rows(frame) == {frame.rows[n] : n \in 1..Len(frame.rows)}

\* the GEOID of row r begins with the characters 7 and 2
Starts72(r) ==
    Len(r["GEOID"]) >= 2 /\ r["GEOID"][1] = "7" /\ r["GEOID"][2] = "2"

\* C5: the mainland and non-mainland groups partition the rows flagged as
\* missing data: each flagged row is in exactly one group, in the
\* non-mainland one exactly when its GEOID starts with "72", and the groups
\* hold nothing else.
C5_Partition ==
    Bound(missing_data) =>
        /\ \A r \in Rows(missing_data) :
            /\ Count(missing_mainland.rows, r)
                   + Count(missing_non_mainland.rows, r)
               = Count(missing_data.rows, r)
            /\ Starts72(r) <=> r \in Rows(missing_non_mainland)
            /\ ~Starts72(r) <=> r \in Rows(missing_mainland)
        /\ Rows(missing_mainland) \cap Rows(missing_non_mainland) = {}
        /\ Rows(missing_mainland) \cup Rows(missing_non_mainland)
               = Rows(missing_data)
        /\ Len(missing_mainland.rows) + Len(missing_non_mainland.rows)
               = Len(missing_data.rows)

\* both groups are non-empty; the non-mainland one holds the 6-character
\* identifier 720011
C5_Witness ==
    /\ pc = "write"
    /\ Len(missing_mainland.rows) = 1
    /\ Len(missing_non_mainland.rows) = 1
    /\ missing_non_mainland.rows[1]["GEOID"] = <<"7", "2", "0", "0", "1", "1">>
    /\ missing_mainland.rows[1]["GEOID"] = <<"0", "6", "0", "0", "1">>

HasEmptyField(r) == \E c \in merged_data.columns : r[c] = NaN

Printed == pc \in {"write", "done"}

Following ==
    [read_counties |-> "normalize_counties",
     normalize_counties |-> "read_csv",
     read_csv |-> "normalize_csv",
     normalize_csv |-> "merge",
     merge |-> "report",
     report |-> "write",
     write |-> "done"]

\* C7: every step goes from one statement to the next one or to the error
\* state, from which, as from the end, no step leaves; each collection is
\* loaded, then normalized, then both are merged, reported and written; the
\* output file changes only in the step that ends the run, after the merge
\* and the report; a run that fails leaves the output file as it was.
C7_Linear ==
    /\ [][/\ pc \notin {"done", "error"}
          /\ pc' \in {Following[pc], "error"}
          /\ out_file' # out_file =>
                /\ pc = "write"
                /\ pc' = "done"
                /\ Bound(merged_data)
                /\ Bound(missing_data)
                /\ Len(stdout) = 2
          /\ pc' = "error" => out_file' = out_file]_vars
    /\ [](pc = "error" => out_file \in OutFiles)
    /\ [](out_file.state = "written" => pc = "done")
    /\ [](Bound(merged_data) => CountiesNormalized /\ CsvNormalized)
    /\ [](Bound(missing_data) => Bound(merged_data))

\* the join succeeded, the report failed, the old output file is untouched
C7_Witness ==
    /\ pc = "error"
    /\ Bound(merged_data)
    /\ Bound(missing_data)
    /\ Len(merged_data.rows) = 2
    /\ stdout = <<>>
    /\ out_file = [state |-> "old", content |-> Unbound]

\* C9: the report leaves the merged collection as the merge produced it and
\* fails only when the merged frame lacks a printed column, never because
\* rows are flagged; the file written holds exactly the merged collection,
\* flagged rows and empty columns included.
C9_Frame ==
    /\ Bound(missing_data) => merged_data = merge(counties, csv_data, "GEOID")
    /\ (pc = "error" /\ Bound(missing_data) /\ stdout = <<>>) =>
           ~(ReportColumns \subseteq merged_data.columns)
    /\ out_file.state = "written" =>
        /\ out_file.content = merged_data
        /\ out_file.content = merge(counties, csv_data, "GEOID")
        /\ \A r \in Rows(missing_data) :
               Count(out_file.content.rows, r) >= Count(missing_data.rows, r)
        /\ Len(out_file.content.rows) >= Len(counties.rows)

\* the run ended with rows flagged in both groups, and the file holds them,
\* empty case count included
C9_Witness ==
    /\ pc = "done"
    /\ Len(missing_mainland.rows) = 1
    /\ Len(missing_non_mainland.rows) = 1
    /\ Len(out_file.content.rows) = 2
    /\ out_file.content.rows[1]["cases"] = NaN
    /\ out_file.content.rows[2]["NAME"] = NaN
    /\ out_file.content.rows[2]["cases"] # NaN

=============================================================================
